---- MODULE Spec2Model ----
(***************************************************************************)
(* Model of src/src/restore.ts: the restore entry point of ccache-action.  *)
(* runInner installs the compiler-cache tool (Package.install), restores   *)
(* the cache (restore) and configures the tool (configure).  Every awaited *)
(* external command is modelled by two steps: ExecBegin puts the command   *)
(* in `running`, ExecEnd takes it out with its outcome.                    *)
(***************************************************************************)
EXTENDS Integers, Sequences, FiniteSets, TLC

VARIABLES
  pc,        \* position of the single thread of control
  proc,      \* process.platform, process.arch
  inputs,    \* configuration inputs read so far (core.getInput)
  state,     \* cross-phase state written by core.saveState
  pkg,       \* descriptor returned by selectPackage
  method,    \* INSTALL_METHOD returned by selectMethod
  envPath,   \* the execution path (PATH), first entry searched first
  sysTool,   \* the tool's executable exists in the system directory of PATH
  binFile,   \* the file at binDir/<tool>: content and executable bit
  tmpDir,    \* the directory made by fs.mkdtempSync: "none", "exists", "removed"
  pm,        \* locals of installPackageManager
  todo,      \* commands the current block still has to await, in order
  running,   \* external commands in progress
  error,     \* the exception being propagated / reported
  log,       \* external operations performed so far, in order
  hist,      \* observations of the run (history only, never read by the code)
  kb         \* the key builder applied alone: inputs and result

vars == <<pc, proc, inputs, state, pkg, method, envPath, sysTool, binFile,
          tmpDir, pm, todo, running, error, log, hist, kb>>

-----------------------------------------------------------------------------
(* Bounds of the model *)

\* longest raw restore-keys input (in characters) the key builder is given
MaxRawLen == 3

-----------------------------------------------------------------------------
(* enums, lines 12-33 *)

VARIANT == {"sccache", "ccache"}
ARCH == {"x86_64", "aarch64"}
PLATFORM == {"linux", "windows", "darwin"}
INSTALL_METHOD == {"yes", "binary", "detect", "no"}

Package(variant, arch, platform, sha256, version) ==
  [variant |-> variant, arch |-> arch, platform |-> platform,
   sha256 |-> sha256, version |-> version]

NoPackage == Package("", "", "", "", "")

\* packageName without the universal darwin binary of ccache
packageName_perArch(p) ==
  IF p.variant = "ccache"
  THEN "ccache-" \o p.version \o "-" \o p.platform \o "-" \o p.arch
  ELSE LET suffix == CASE p.platform = "linux" -> "unknown-linux-musl"
                       [] p.platform = "windows" -> "pc-windows-msvc"
                       [] p.platform = "darwin" -> "apple-darwin"
                       [] OTHER -> "undefined"
       IN "sccache-" \o p.version \o "-" \o p.arch \o "-" \o suffix

\* Package.packageName
packageName(p) ==
  IF p.variant = "ccache"
  THEN IF p.platform = "darwin"
       THEN "ccache-" \o p.version \o "-darwin"
       ELSE "ccache-" \o p.version \o "-" \o p.platform \o "-" \o p.arch
  ELSE LET suffix == CASE p.platform = "linux" -> "unknown-linux-musl"
                       [] p.platform = "windows" -> "pc-windows-msvc"
                       [] p.platform = "darwin" -> "apple-darwin"
                       [] OTHER -> "undefined"
       IN "sccache-" \o p.version \o "-" \o p.arch \o "-" \o suffix

\* the extension chosen by Package.downloadName
downloadExtension(p) ==
  IF p.variant = "ccache"
  THEN CASE p.platform = "linux" -> "tar.xz"
         [] p.platform = "windows" -> "zip"
         [] OTHER -> "tar.gz"
  ELSE "tar.gz"

\* Package.downloadName
downloadName(p) == packageName(p) \o "." \o downloadExtension(p)

\* Package.downloadUrl
downloadUrl(p) ==
  LET artifact == downloadName(p)
      repo == IF p.variant = "ccache" THEN "ccache/ccache" ELSE "mozilla/sccache"
      version == IF p.variant = "ccache" THEN "v" \o p.version ELSE p.version
  IN "https://github.com/" \o repo \o "/releases/download/" \o version
       \o "/" \o artifact

\* url.endsWith(".zip") in downloadAndExtract: the url ends with the artifact
\* name, which ends with "." and the extension
urlEndsWithZip(p) == downloadExtension(p) = "zip"

-----------------------------------------------------------------------------
(* predefined packages, lines 342-450 *)

LINUX ==
  [x64 |->
     [ccache |-> Package("ccache", "x86_64", "linux",
        "4fdc966c46448960f3f9d85cf4430d818c1f4b4618ba0b745d000a396d6bc041", "4.12.2"),
      sccache |-> Package("sccache", "x86_64", "linux",
        "e381a9675f971082a522907b8381c1054777ea60511043e4c67de5dfddff3029", "v0.12.0")],
   aarch64 |->
     [ccache |-> Package("ccache", "aarch64", "linux",
        "65ccce8cc26ebb1127207fc55cd96443df56a2d6d74bd84f439db2c91c637d06", "4.12.2"),
      sccache |-> Package("sccache", "aarch64", "linux",
        "2f9a8af7cea98e848f92e865a6d5062cfb8c91feeef17417cdd43276b4c7d8af", "v0.12.0")]]

WINDOWS ==
  [x64 |->
     [ccache |-> Package("ccache", "x86_64", "windows",
        "bd73f405e3e80c7f0081ee75dbf9ee44dee64ecfbc3d4316e9a4ede4832f2e41", "4.12.2"),
      sccache |-> Package("sccache", "x86_64", "windows",
        "b0236d379a66b22f6bc9e944adb5b354163015315c3a2aaf7803ce2add758fcd", "v0.12.0")],
   aarch64 |->
     [ccache |-> Package("ccache", "aarch64", "windows",
        "9881a3acf40a5b22eff1c1650b335bd7cf56cf66a6c05cb7d0f53f19b43054f8", "4.12.2"),
      sccache |-> Package("sccache", "aarch64", "windows",
        "0254597932dcc4fa85f67ac149be29941b96a19f8b1bb0bf71b24640641ab987", "v0.12.0")]]

DARWIN ==
  [x64 |->
     [ccache |-> Package("ccache", "x86_64", "darwin",
        "3a3429dfd19c206b084204c35667005f0b91cb5716e79cfe7efe796be61a4047", "4.12.2"),
      sccache |-> Package("sccache", "x86_64", "darwin",
        "dc4b8d99d1aab20d1a2274642444c0bdc3e4a5fb4c6b63c58ff134eea81ccc15", "v0.12.0")],
   aarch64 |->
     [ccache |-> Package("ccache", "aarch64", "darwin",
        "3a3429dfd19c206b084204c35667005f0b91cb5716e79cfe7efe796be61a4047", "4.12.2"),
      sccache |-> Package("sccache", "aarch64", "darwin",
        "0a7e14583e7e136c5b2253990e7ce66668c453a845c710b18873e7205ed8c098", "v0.12.0")]]

-----------------------------------------------------------------------------
(* errors *)

\* an exception: its class of message, the message, and the axes
\* (platform, arch, variant) whose value the message interpolates
Err(kind, msg, names) == [kind |-> kind, msg |-> msg, names |-> names]
NoError == Err("none", "", {})

\* a result of a function that may throw
Ok(v) == [ok |-> TRUE, val |-> v, err |-> NoError]
Thrown(e) == [ok |-> FALSE, val |-> NoPackage, err |-> e]

\* detectPlatform with a default instead of the throw
detectPlatform_default(rawPlatform) ==
  CASE rawPlatform = "win32" -> [ok |-> TRUE, val |-> "windows", err |-> NoError]
    [] rawPlatform = "darwin" -> [ok |-> TRUE, val |-> "darwin", err |-> NoError]
    [] OTHER -> [ok |-> TRUE, val |-> "linux", err |-> NoError]

\* detectPlatform
detectPlatform(rawPlatform) ==
  CASE rawPlatform = "linux" -> [ok |-> TRUE, val |-> "linux", err |-> NoError]
    [] rawPlatform = "win32" -> [ok |-> TRUE, val |-> "windows", err |-> NoError]
    [] rawPlatform = "darwin" -> [ok |-> TRUE, val |-> "darwin", err |-> NoError]
    [] OTHER -> [ok |-> FALSE, val |-> "",
                 err |-> Err("UnsupportedPlatform",
                             "Unsupported platform: " \o rawPlatform, {"platform"})]

\* detectArchKey
detectArchKey(rawArch) ==
  CASE rawArch = "x64" -> [ok |-> TRUE, val |-> "x64", err |-> NoError]
    [] rawArch = "arm64" -> [ok |-> TRUE, val |-> "aarch64", err |-> NoError]
    [] OTHER -> [ok |-> FALSE, val |-> "",
                 err |-> Err("UnsupportedArchitecture",
                             "Unsupported architecture: " \o rawArch, {"arch"})]

\* the table selectPackage indexes for a platform
catalogOf(platform) ==
  CASE platform = "linux" -> LINUX
    [] platform = "windows" -> WINDOWS
    [] platform = "darwin" -> DARWIN

\* selectPackage: detection first, then the table lookup
selectPackage(variant, rawPlatform, rawArch) ==
  LET platform == detectPlatform(rawPlatform)
      archKey == detectArchKey(rawArch)
  IN IF ~platform.ok THEN Thrown(platform.err)
     ELSE IF ~archKey.ok THEN Thrown(archKey.err)
     ELSE IF archKey.val \in DOMAIN catalogOf(platform.val)
          THEN Ok(catalogOf(platform.val)[archKey.val][variant])
          ELSE Thrown(Err("UnsupportedCombination",
                 "Unsupported package combination: platform=" \o platform.val
                   \o ", arch=" \o archKey.val \o ", variant=" \o variant,
                 {"platform", "arch", "variant"}))

\* selectMethod
selectMethod(m) ==
  IF m \in INSTALL_METHOD
  THEN [ok |-> TRUE, val |-> m, err |-> NoError]
  ELSE [ok |-> FALSE, val |-> "",
        err |-> Err("UnsupportedMethod",
                    "Unsupported installation method " \o m \o ".", {})]

\* selectVariant
selectVariant(v) ==
  IF v \in VARIANT
  THEN [ok |-> TRUE, val |-> v, err |-> NoError]
  ELSE [ok |-> FALSE, val |-> "",
        err |-> Err("UnsupportedVariant",
                    "Unsupported ccache variant " \o v \o ".", {"variant"})]

\* core.getBooleanInput on the value core.getInput returns
getBooleanInput(name, val) ==
  IF val \in {"true", "True", "TRUE"}
  THEN [ok |-> TRUE, val |-> TRUE, err |-> NoError]
  ELSE IF val \in {"false", "False", "FALSE"}
  THEN [ok |-> TRUE, val |-> FALSE, err |-> NoError]
  ELSE [ok |-> FALSE, val |-> FALSE,
        err |-> Err("TypeError",
                    "Input does not meet YAML 1.2 Core Schema specification: " \o name, {})]

-----------------------------------------------------------------------------
(* cache keys, restore() lines 465-474 *)

\* characters a configuration input is made of
Chars == {"r", "s", " ", "\n"}
Whitespace == {" ", "\n"}

RECURSIVE Str(_)
\* the string made of a sequence of characters
Str(cs) == IF cs = <<>> THEN "" ELSE Head(cs) \o Str(Tail(cs))

RECURSIVE trimStart(_)
\* String.prototype.trim, leading part
trimStart(cs) ==
  IF cs # <<>> /\ Head(cs) \in Whitespace THEN trimStart(Tail(cs)) ELSE cs

RECURSIVE trimEnd(_)
\* String.prototype.trim, trailing part
trimEnd(cs) ==
  IF cs # <<>> /\ cs[Len(cs)] \in Whitespace
  THEN trimEnd(SubSeq(cs, 1, Len(cs) - 1)) ELSE cs

\* String.prototype.trim
trim(cs) == trimEnd(trimStart(cs))

RECURSIVE split(_, _)
\* String.prototype.split("\n"): `cur` is the piece being read
split(cs, cur) ==
  IF cs = <<>> THEN <<cur>>
  ELSE IF Head(cs) = "\n" THEN <<cur>> \o split(Tail(cs), <<>>)
  ELSE split(Tail(cs), Append(cur, Head(cs)))

RECURSIVE mapTrim(_)
\* .map(s => s.trim())
mapTrim(pieces) ==
  IF pieces = <<>> THEN <<>>
  ELSE <<trim(Head(pieces))>> \o mapTrim(Tail(pieces))

RECURSIVE filterNonEmpty(_)
\* .filter(x => x !== "")
filterNonEmpty(pieces) ==
  IF pieces = <<>> THEN <<>>
  ELSE IF Head(pieces) = <<>> THEN filterNonEmpty(Tail(pieces))
  ELSE <<Head(pieces)>> \o filterNonEmpty(Tail(pieces))

RECURSIVE mapStr(_)
\* the pieces as strings
mapStr(pieces) ==
  IF pieces = <<>> THEN <<>>
  ELSE <<Str(Head(pieces))>> \o mapStr(Tail(pieces))

\* inputs.restoreKeys, line 468
parseRestoreKeys(raw) == mapStr(filterNonEmpty(mapTrim(split(raw, <<>>))))

\* a string used as a condition: only the empty string is falsy
truthy(s) == s # ""

\* a suffix that substitutes the start timestamp
timestampSuffix_clock(appendTimestamp, now) ==
  IF truthy(appendTimestamp) THEN "-" \o now ELSE ""

\* the suffix appended when inputs.appendTimestamp is set, lines 473-474; the
\* start timestamp `now` is at hand in the run but is not used
timestampSuffix(appendTimestamp, now) ==
  IF truthy(appendTimestamp) THEN "-" ELSE ""

\* keyPrefix, line 472
keyPrefix(ccacheVariant) == ccacheVariant \o "-"

\* a primary key that gets the suffix also when the user key is empty
buildPrimaryKey_alwaysSuffix(ccacheVariant, key, appendTimestamp, now) ==
  keyPrefix(ccacheVariant) \o key \o timestampSuffix(appendTimestamp, now)

\* primaryKey, line 473
buildPrimaryKey(ccacheVariant, key, appendTimestamp, now) ==
  IF truthy(key)
  THEN keyPrefix(ccacheVariant) \o key \o timestampSuffix(appendTimestamp, now)
  ELSE keyPrefix(ccacheVariant)

\* restoreKeys, line 474
buildRestoreKeys(ccacheVariant, keys, appendTimestamp, now) ==
  [i \in 1..Len(keys) |->
     keyPrefix(ccacheVariant) \o keys[i] \o timestampSuffix(appendTimestamp, now)]

\* sequences of characters of length at most n
CharSeqs(n) == UNION {[1..k -> Chars] : k \in 0..n}

\* values core.getInput can return for restore-keys: it trims the whole value
RawRestoreKeys(n) == {cs \in CharSeqs(n) : trim(cs) = cs}

\* values of Date.now()
Clock == {"1762421000000", "1762421000001"}

-----------------------------------------------------------------------------
(* the host: execution path and files *)

\* directory of PATH the package managers install into
SysDir == "/usr/bin"

\* binDir of installBinary, lines 153-156
binDir(platform) ==
  IF platform = "windows" THEN "%USERPROFILE%/.cargo/bin" ELSE "/usr/local/bin"

\* binName of installBinary, lines 162-164
binName(platform, variant) ==
  IF platform = "windows" THEN variant \o ".exe" ELSE variant

\* binPath of installBinary, line 166
binPath(platform, variant) == binDir(platform) \o "/" \o binName(platform, variant)

NoFile == [content |-> "none", exec |-> FALSE]

\* a directory of the path holds an executable of the tool (io.which looks at
\* the executable bit on POSIX hosts only)
dirHasTool(dir, platform, sys, file) ==
  \/ dir = SysDir /\ sys
  \/ /\ dir = binDir(platform)
     /\ file.content # "none"
     /\ (platform = "windows" \/ file.exec)

\* io.which(tool): the tool is found in some directory of the path
which(path, platform, sys, file) ==
  \E i \in 1..Len(path) : dirHasTool(path[i], platform, sys, file)

\* the path io.which returns: the first directory holding the tool
whichPath(path, platform, variant, sys, file) ==
  LET hits == {i \in 1..Len(path) : dirHasTool(path[i], platform, sys, file)}
      first == CHOOSE i \in hits : \A j \in hits : i <= j
  IN IF hits = {} THEN "" ELSE path[first] \o "/" \o binName(platform, variant)

\* core.addPath: prepends to the execution path
addPath(path, dir) == <<dir>> \o path

\* the tool is discoverable now
Found == which(envPath, pkg.platform, sysTool, binFile)

-----------------------------------------------------------------------------
(* state *)

Unset == "<unset>"

NoInputs ==
  [variant |-> Unset, install |-> Unset, save |-> Unset,
   appendTimestamp |-> Unset, updatePackageIndex |-> Unset, key |-> Unset,
   restoreKeys |-> <<>>, restore |-> Unset, createSymlink |-> Unset]

NoState ==
  [startTimestamp |-> Unset, ccacheVariant |-> Unset, evictOldFiles |-> Unset,
   shouldSave |-> Unset, appendTimestamp |-> Unset, primaryKey |-> Unset]

NoPm ==
  [manager |-> "", updateCmd |-> "undefined", installCmd |-> "undefined",
   hasSccache |-> TRUE, needSudo |-> FALSE, shouldUpdate |-> FALSE,
   sudoFound |-> FALSE]

NoHist ==
  [selected |-> "notyet",     \* selectPackage: notyet, returned, threw
   install |-> "notyet",      \* Package.install: notyet, running, returned, threw
   branchThrew |-> FALSE,     \* the switch of install() threw
   foundAtStart |-> FALSE,    \* io.which(tool) when install() started
   pathAtStart |-> <<>>,      \* the execution path when install() started
   binaryAttempts |-> 0,      \* calls of installBinary
   binary |-> "none",         \* installBinary: none, running, returned, threw
   pmFailed |-> FALSE,        \* a package-manager command failed
   pm |-> "notyet",           \* installPackageManager: notyet, running, returned, threw
   managerProbed |-> FALSE,   \* the Linux manager probes of lines 202-217 ran
   pmResult |-> "none",       \* what installPackageManager returned: none, true, false
   failedSite |-> "",         \* the site of the command that failed
   fileAtStart |-> NoFile,    \* the file at binPath when installBinary started
   shaMismatch |-> FALSE,     \* checkSha256Sum threw
   logAtMismatch |-> 0,       \* Len(log) when checkSha256Sum threw
   restore |-> "notyet",      \* restore(): notyet, running, returned, threw
   restoreKeys |-> <<>>,      \* the fallback keys restore() built
   reports |-> 0]             \* calls of core.setFailed

NoKb ==
  [stage |-> "idle", variant |-> "", key |-> "", raw |-> <<>>,
   appendTimestamp |-> "", now |-> "", savedAppendTimestamp |-> Unset,
   primaryKey |-> Unset, restoreKeys |-> <<>>]

\* string form core.saveState gives a boolean
boolStr(b) == IF b THEN "true" ELSE "false"

\* an external operation in the log
Event(op, site, arg) == [op |-> op, site |-> site, arg |-> arg]

\* a command for execShell: the place of the call and the command line
Cmd(site, cmd) == [site |-> site, cmd |-> cmd]

\* values of the raw inputs of a run
VariantInputs == {"ccache", "sccache", "distcc"}
InstallInputs == {"yes", "binary", "detect", "no", "auto"}
BooleanInputs == {"true", "false", ""}
SaveInputs == {"true", ""}
RunClock == {"1762421000000"}
KeyInputs == {"", "abc"}
RestoreKeysInputs == {<<>>, <<"r", "\n", "s">>}
RawPlatforms == {"linux", "win32", "darwin", "freebsd"}
RawArchs == {"x64", "arm64", "ia32"}
Managers == <<"apt-get", "apk", "dnf", "pacman">>

platformOfRaw(rawPlatform) ==
  IF detectPlatform(rawPlatform).ok THEN detectPlatform(rawPlatform).val ELSE "linux"

Init ==
  /\ pc = "start"
  /\ proc \in [platform : RawPlatforms, arch : RawArchs]
  /\ inputs = NoInputs
  /\ state = NoState
  /\ pkg = NoPackage
  /\ method = ""
  /\ envPath \in {<<SysDir>>, <<binDir(platformOfRaw(proc.platform)), SysDir>>}
  /\ sysTool \in BOOLEAN
  /\ binFile \in {NoFile, [content |-> "prior", exec |-> TRUE]}
  /\ tmpDir = "none"
  /\ pm = NoPm
  /\ todo = <<>>
  /\ running = {}
  /\ error = NoError
  /\ log = <<>>
  /\ hist = NoHist
  /\ kb = NoKb

\* an exception leaves the current function: it propagates to the catch of
\* run(), lines 579-583; nothing between the throw and that catch handles it.
\* `h` is the history with the observations of the throwing step.
RaiseWith(e, h) ==
  /\ error' = e
  /\ pc' = "catch"
  /\ todo' = <<>>
  /\ hist' = [h EXCEPT
       !.install = IF @ = "running" THEN "threw" ELSE @,
       !.branchThrew = IF h.install = "running" THEN TRUE ELSE @,
       !.binary = IF @ = "running" THEN "threw" ELSE @,
       !.pm = IF @ = "running" THEN "threw" ELSE @,
       !.restore = IF @ = "running" THEN "threw" ELSE @]

Raise(e) == RaiseWith(e, hist)

\* the thread is at `label` and awaits nothing
At(label) == pc = label /\ todo = <<>> /\ running = {}


-----------------------------------------------------------------------------
(* execShell, lines 528-536 *)

\* exec.exec called without await
awaited_missing(inProgress) == TRUE

\* `await exec.exec(...)`: the caller goes on only when the command has ended,
\* so a command starts only when none is in progress
awaited(inProgress) == inProgress = {}

\* an elevation that does not ask whether sudo exists
execShellSudo_always(cmd, sudoFound) == "$(which sudo) " \o cmd

\* execShellSudo: the command line it hands to execShell
execShellSudo(cmd, sudoFound) ==
  IF sudoFound THEN "$(which sudo) " \o cmd ELSE cmd

\* getPackageManagerError, lines 454-460
getPackageManagerError(e) ==
  Err("PackageManagerError",
      "Failed to install ccache via package manager: '" \o e.msg \o "'. "
        \o "Perhaps package manager index is not up to date? "
        \o "(either update it manually before running ccache-action or set "
        \o "'update-package-index' option to 'true')",
      {})

\* the error of exec.exec for a command that exits with a failure
execError(cmd) == Err("ExecError", "The process 'sh' failed with exit code 1", {})

\* sites of the commands inside the try block of installPackageManager
TrySites == {"pm_update", "pm_install"}
\* sites of all package-manager commands
PmSites == {"pm_epel", "pm_update", "pm_install"}

\* the exception a failing command raises in its caller, lines 234-239:
\* commands of the try block are wrapped, all others propagate as they are
errorOfCommand(cmd) ==
  IF cmd.site \in TrySites
  THEN getPackageManagerError(execError(cmd))
  ELSE execError(cmd)

\* outcomes a command can have: a command line starting with "undefined"
\* (no manager was detected) names no program and always fails
outcomes(cmd) ==
  IF cmd.site \in TrySites /\ pm.manager = "" THEN {FALSE} ELSE BOOLEAN

\* the shell starts the next command of the block; `> dstFile` of the tar
\* command line truncates or creates the destination before tar runs
ExecBegin ==
  /\ todo # <<>>
  /\ pc # "catch"
  /\ awaited(running)
  /\ running' = running \cup {Head(todo)}
  /\ todo' = Tail(todo)
  /\ log' = Append(log, Event("exec", Head(todo).site, Head(todo).cmd))
  /\ binFile' = IF Head(todo).site = "tar"
                THEN [content |-> "partial", exec |-> binFile.exec]
                ELSE binFile
  /\ UNCHANGED <<pc, proc, inputs, state, pkg, method, envPath, sysTool,
                 tmpDir, pm, error, hist, kb>>

\* a command ends: successfully, with its effect, or with an exception
ExecEnd ==
  \E cmd \in running : \E ok \in outcomes(cmd) :
    /\ running' = running \ {cmd}
    /\ IF ok
       THEN /\ \E content \in {"good", "bad"}, placed \in BOOLEAN :
                 /\ binFile' =
                      CASE cmd.site = "tar" -> [binFile EXCEPT !.content = content]
                        [] cmd.site = "chmod" -> [binFile EXCEPT !.exec = TRUE]
                        [] OTHER -> binFile
                 /\ sysTool' = IF cmd.site = "pm_install"
                               THEN sysTool \/ placed ELSE sysTool
            /\ UNCHANGED <<pc, todo, error, hist>>
       ELSE /\ RaiseWith(errorOfCommand(cmd),
                 [hist EXCEPT !.pmFailed = IF cmd.site \in PmSites THEN TRUE ELSE @,
                              !.failedSite = cmd.site])
            /\ UNCHANGED <<binFile, sysTool>>
    /\ UNCHANGED <<proc, inputs, state, pkg, method, envPath, tmpDir, pm, log, kb>>


-----------------------------------------------------------------------------
(* runInner, lines 547-560 *)

SaveEvent(name, value) == Event("saveState", name, value)

\* lines 548-554: the inputs are read and the first values saved; the two
\* boolean inputs are validated in order, the first invalid one throws
RunInnerSaveState ==
  /\ At("start")
  /\ \E v \in VariantInputs, i \in InstallInputs, now \in RunClock,
        sv \in SaveInputs, at \in BooleanInputs :
       LET save == getBooleanInput("save", sv)
           append == getBooleanInput("append-timestamp", at)
           first == [state EXCEPT !.startTimestamp = now, !.ccacheVariant = v,
                                  !.evictOldFiles = ""]
           events == <<SaveEvent("startTimestamp", now),
                       SaveEvent("ccacheVariant", v),
                       SaveEvent("evictOldFiles", "")>>
       IN /\ inputs' = [inputs EXCEPT !.variant = v, !.install = i, !.save = sv,
                                      !.appendTimestamp = at]
          /\ IF ~save.ok
             THEN /\ state' = first
                  /\ log' = log \o events
                  /\ Raise(save.err)
             ELSE IF ~append.ok
             THEN /\ state' = [first EXCEPT !.shouldSave = boolStr(save.val)]
                  /\ log' = log \o Append(events, SaveEvent("shouldSave", boolStr(save.val)))
                  /\ Raise(append.err)
             ELSE /\ state' = [first EXCEPT !.shouldSave = boolStr(save.val),
                                            !.appendTimestamp = boolStr(append.val)]
                  /\ log' = log \o events \o
                       <<SaveEvent("shouldSave", boolStr(save.val)),
                         SaveEvent("appendTimestamp", boolStr(append.val))>>
                  /\ pc' = "select"
                  /\ UNCHANGED <<todo, error, hist>>
  /\ UNCHANGED <<proc, pkg, method, envPath, sysTool, binFile, tmpDir, pm,
                 running, kb>>

\* lines 558-560: selectVariant, selectPackage, selectMethod, in this order
RunInnerSelect ==
  /\ At("select")
  /\ LET variant == selectVariant(inputs.variant)
         package == selectPackage(variant.val, proc.platform, proc.arch)
         m == selectMethod(inputs.install)
     IN IF ~variant.ok THEN Raise(variant.err) /\ UNCHANGED <<pkg, method>>
        ELSE IF ~package.ok
        THEN /\ RaiseWith(package.err, [hist EXCEPT !.selected = "threw"])
             /\ UNCHANGED <<pkg, method>>
        ELSE IF ~m.ok
        THEN /\ RaiseWith(m.err, [hist EXCEPT !.selected = "returned"])
             /\ pkg' = package.val
             /\ UNCHANGED method
        ELSE /\ pkg' = package.val
             /\ method' = m.val
             /\ pc' = "install"
             /\ hist' = [hist EXCEPT !.selected = "returned"]
             /\ UNCHANGED <<todo, error>>
  /\ UNCHANGED <<proc, inputs, state, envPath, sysTool, binFile, tmpDir, pm,
                 running, log, kb>>

-----------------------------------------------------------------------------
(* Package.install, lines 250-269 *)

\* a switch whose detect case does not look at io.which
installBranch_noDetect(m, found) ==
  CASE m = "yes" -> "auto"
    [] m = "binary" -> "binary"
    [] m = "detect" -> "auto"
    [] OTHER -> "none"

\* a switch whose detect case goes to the binary install directly
installBranch_detectBinary(m, found) ==
  CASE m = "yes" -> "auto"
    [] m = "binary" -> "binary"
    [] m = "detect" -> IF ~found THEN "binary" ELSE "none"
    [] OTHER -> "none"

\* the branch the switch of install() takes: "auto" is installAuto
installBranch(m, found) ==
  CASE m = "yes" -> "auto"
    [] m = "binary" -> "binary"
    [] m = "detect" -> IF ~found THEN "auto" ELSE "none"
    [] OTHER -> "none"

\* lines 251-264, for the policy m
InstallAs(m) ==
  /\ At("install")
  /\ hist' = [hist EXCEPT !.install = "running", !.foundAtStart = Found,
                          !.pathAtStart = envPath]
  /\ pc' = CASE installBranch(m, Found) = "auto" -> "pm"
             [] installBranch(m, Found) = "binary" -> "binary"
             [] OTHER -> "postcheck"
  /\ UNCHANGED <<proc, inputs, state, pkg, method, envPath, sysTool, binFile,
                 tmpDir, pm, todo, running, error, log, kb>>

\* install(method), line 562
Install == InstallAs(method)

\* a gate that is skipped
postCheckPasses_skipped(found) == TRUE

\* the final gate of install(): it passes only when io.which finds the tool
postCheckPasses(found) == found

\* lines 266-268
InstallPostCheck ==
  /\ At("postcheck")
  /\ IF postCheckPasses(Found)
     THEN /\ pc' = "restore"
          /\ hist' = [hist EXCEPT !.install = "returned"]
          /\ UNCHANGED <<todo, error>>
     ELSE /\ error' = Err("UnableToInstall",
                 "Unable to install " \o pkg.variant
                   \o ". Check prior logs and file a bug report.", {"variant"})
          /\ pc' = "catch"
          /\ hist' = [hist EXCEPT !.install = "threw"]
          /\ UNCHANGED todo
  /\ UNCHANGED <<proc, inputs, state, pkg, method, envPath, sysTool, binFile,
                 tmpDir, pm, running, log, kb>>

-----------------------------------------------------------------------------
(* Package.installPackageManager and installAuto, lines 185-248 *)

\* the first manager of the probe order that io.which finds, lines 202-217
detectManager(present) ==
  LET hits == {i \in 1..Len(Managers) : Managers[i] \in present}
  IN IF hits = {} THEN ""
     ELSE Managers[CHOOSE i \in hits : \A j \in hits : i <= j]

\* updateCmd, installCmd, hasSccache, needSudo per manager, lines 196-222
managerSettings(manager) ==
  CASE manager = "brew" ->
         [NoPm EXCEPT !.manager = manager, !.updateCmd = "brew update",
                      !.installCmd = "brew install"]
    [] manager = "apt-get" ->
         [NoPm EXCEPT !.manager = manager, !.updateCmd = "apt-get update",
                      !.installCmd = "apt-get install -y",
                      !.hasSccache = FALSE, !.needSudo = TRUE]
    [] manager = "apk" ->
         [NoPm EXCEPT !.manager = manager, !.updateCmd = "apk update",
                      !.installCmd = "apk add", !.hasSccache = FALSE]
    [] manager = "dnf" ->
         [NoPm EXCEPT !.manager = manager, !.updateCmd = "dnf check-update",
                      !.installCmd = "dnf install -y"]
    [] manager = "pacman" ->
         [NoPm EXCEPT !.manager = manager,
                      !.updateCmd = "pacman -Syu --noconfirm --needed",
                      !.installCmd = "pacman -S --noconfirm --needed"]
    [] OTHER -> NoPm

\* the commands run while the manager is detected, line 216: the dnf branch
\* installs epel-release at once
preInstall(manager, variant) ==
  IF manager = "dnf"
  THEN <<Cmd("pm_epel", "dnf install -y epel-release")>>
  ELSE <<>>

\* lines 186-228: the update-package-index input, then the platform switch
InstallPackageManager ==
  /\ At("pm")
  /\ \E u \in BooleanInputs :
       LET shouldUpdate == getBooleanInput("update-package-index", u)
       IN /\ inputs' = [inputs EXCEPT !.updatePackageIndex = u]
          /\ IF ~shouldUpdate.ok
             THEN /\ RaiseWith(shouldUpdate.err, [hist EXCEPT !.pm = "running"])
                  /\ UNCHANGED pm
             ELSE CASE pkg.platform = "darwin" ->
                         /\ pm' = [managerSettings("brew") EXCEPT
                                     !.shouldUpdate = shouldUpdate.val]
                         /\ pc' = "pm_try"
                         /\ hist' = [hist EXCEPT !.pm = "running"]
                         /\ UNCHANGED <<todo, error>>
                    [] pkg.platform = "linux" ->
                         \E present \in SUBSET {Managers[i] : i \in 1..Len(Managers)} :
                           /\ pm' = [managerSettings(detectManager(present)) EXCEPT
                                       !.shouldUpdate = shouldUpdate.val]
                           /\ todo' = preInstall(detectManager(present), pkg.variant)
                           /\ pc' = "pm_try"
                           /\ hist' = [hist EXCEPT !.pm = "running",
                                                   !.managerProbed = TRUE]
                           /\ UNCHANGED error
                    [] OTHER ->
                         \* Windows: return false, installAuto calls installBinary
                         /\ pc' = "binary"
                         /\ hist' = [hist EXCEPT !.pm = "returned",
                                                 !.pmResult = "false"]
                         /\ UNCHANGED <<pm, todo, error>>
  /\ UNCHANGED <<proc, state, pkg, method, envPath, sysTool, binFile, tmpDir,
                 running, log, kb>>

\* a manager attempt that is never skipped
skipsPackageManager_never(variant, settings) == FALSE

\* line 230: the package manager is known not to carry the variant
skipsPackageManager(variant, settings) ==
  variant = "sccache" /\ ~settings.hasSccache

\* the commands of the try block, lines 232-236
tryCommands(variant, settings, sudoFound) ==
  LET line(cmd) == IF settings.needSudo THEN execShellSudo(cmd, sudoFound) ELSE cmd
  IN (IF settings.shouldUpdate
      THEN <<Cmd("pm_update", line(settings.updateCmd))>> ELSE <<>>)
     \o <<Cmd("pm_install", line(settings.installCmd \o " " \o variant))>>

\* lines 230-236; io.which("sudo") is asked only by execShellSudo
PmTry ==
  /\ At("pm_try")
  /\ IF skipsPackageManager(pkg.variant, pm)
     THEN /\ pc' = "binary"
          /\ hist' = [hist EXCEPT !.pm = "returned", !.pmResult = "false"]
          /\ UNCHANGED <<pm, todo>>
     ELSE \E sudoFound \in (IF pm.needSudo THEN BOOLEAN ELSE {FALSE}) :
            /\ pm' = [pm EXCEPT !.sudoFound = sudoFound]
            /\ todo' = tryCommands(pkg.variant, pm, sudoFound)
            /\ pc' = "pm_ret"
            /\ UNCHANGED hist
  /\ UNCHANGED <<proc, inputs, state, pkg, method, envPath, sysTool, binFile,
                 tmpDir, running, error, log, kb>>

\* line 241 and installAuto, lines 244-248: the binary install follows when
\* installPackageManager returns false
PmReturn ==
  /\ At("pm_ret")
  /\ pc' = IF Found THEN "postcheck" ELSE "binary"
  /\ hist' = [hist EXCEPT !.pm = "returned", !.pmResult = boolStr(Found)]
  /\ UNCHANGED <<proc, inputs, state, pkg, method, envPath, sysTool, binFile,
                 tmpDir, pm, todo, running, error, log, kb>>


-----------------------------------------------------------------------------
(* Package.installBinary and downloadAndExtract, lines 119-179 *)

\* the directory fs.mkdtempSync makes, line 127
TmpName == "/tmp/ccacheXXXXXX"

\* dlName, line 128
dlName(p) == TmpName \o "/" \o downloadName(p)

\* srcFile handed to downloadAndExtract, line 169
srcFile(p) == packageName(p) \o "/" \o binName(p.platform, p.variant)

\* line 129
curlCommand(p) ==
  Cmd("curl", "curl -L '" \o downloadUrl(p) \o "' -o '" \o dlName(p) \o "'")

\* lines 131-143: the command that unpacks the archive
extractCommand(p) ==
  LET dst == binPath(p.platform, p.variant)
  IN IF urlEndsWithZip(p)
     THEN Cmd("unzip", "unzip '" \o dlName(p) \o "' -d '" \o TmpName \o "'")
     ELSE IF p.platform = "windows"
     THEN Cmd("tar", "tar xf " \o "\"$(cygpath -u " \o dlName(p) \o ")\" -O '"
                       \o srcFile(p) \o "' > '" \o dst \o "'")
     ELSE Cmd("tar", "tar xf '" \o dlName(p) \o "' -O '" \o srcFile(p)
                       \o "' > '" \o dst \o "'")

\* the state of the temporary directory when the zip branch has copied the
\* member out, line 134
afterZipCopy(dir) == "removed"

\* the state of the temporary directory when the tar branch ends, lines 135-143
afterTar(dir) == dir

\* the digest of a file: only the released binary has the recorded digest
sha256Of(file, p) ==
  IF file.content = "good" THEN p.sha256
  ELSE "e3b0c44298fc1c149afbf4c8996fb92427ae41e4649b934ca495991b7852b855"

\* checkSha256Sum, lines 538-545
checkSha256Sum(file, expectedSha256, p) ==
  IF sha256Of(file, p) # expectedSha256
  THEN [ok |-> FALSE,
        err |-> Err("ShaMismatch",
                    "SHA256 of " \o binPath(p.platform, p.variant) \o " is "
                      \o sha256Of(file, p) \o ", expected " \o expectedSha256, {})]
  ELSE [ok |-> TRUE, err |-> NoError]

\* lines 150-170 and 120-129: the path is extended, the temporary directory
\* made and the download started
InstallBinary ==
  /\ At("binary")
  /\ envPath' = addPath(envPath, binDir(pkg.platform))
  /\ tmpDir' = "exists"
  /\ todo' = <<curlCommand(pkg)>>
  /\ log' = Append(log, Event("addPath", "binary", binDir(pkg.platform)))
  /\ hist' = [hist EXCEPT !.binaryAttempts = @ + 1, !.binary = "running",
                          !.fileAtStart = binFile]
  /\ pc' = "extract"
  /\ UNCHANGED <<proc, inputs, state, pkg, method, sysTool, binFile, pm,
                 running, error, kb>>

\* lines 131-143: the archive is unpacked according to its extension
DownloadAndExtract ==
  /\ At("extract")
  /\ todo' = <<extractCommand(pkg)>>
  /\ pc' = IF urlEndsWithZip(pkg) THEN "zip_copy" ELSE "tar_done"
  /\ UNCHANGED <<proc, inputs, state, pkg, method, envPath, sysTool, binFile,
                 tmpDir, pm, running, error, log, hist, kb>>

\* lines 133-134: fs.copyFileSync to the destination, then fs.rmSync of the
\* temporary directory; a failing copy throws and may leave a partial file
ZipCopy ==
  /\ At("zip_copy")
  /\ \/ \E content \in {"good", "bad"} :
          /\ binFile' = [binFile EXCEPT !.content = content]
          /\ tmpDir' = afterZipCopy(tmpDir)
          /\ pc' = "checksum"
          /\ UNCHANGED <<todo, error, hist>>
     \/ /\ binFile' \in {binFile, [binFile EXCEPT !.content = "partial"]}
        /\ Raise(Err("FsError", "copyfile failed", {}))
        /\ UNCHANGED tmpDir
  /\ UNCHANGED <<proc, inputs, state, pkg, method, envPath, sysTool, pm,
                 running, log, kb>>

\* the end of the tar branch of downloadAndExtract, line 143
TarDone ==
  /\ At("tar_done")
  /\ tmpDir' = afterTar(tmpDir)
  /\ pc' = "checksum"
  /\ UNCHANGED <<proc, inputs, state, pkg, method, envPath, sysTool, binFile,
                 pm, todo, running, error, log, hist, kb>>

\* a mismatch that is only logged
onMismatch_warn(e) == "warn"

\* what installBinary does when the digest differs, line 174: it throws
onMismatch(e) == "throw"

\* lines 174-178: the digest is checked, the path extended again and the
\* file made executable
CheckSha ==
  /\ At("checksum")
  /\ LET sum == checkSha256Sum(binFile, pkg.sha256, pkg)
     IN IF ~sum.ok /\ onMismatch(sum.err) = "throw"
        THEN /\ RaiseWith(sum.err, [hist EXCEPT !.shaMismatch = TRUE,
                                                !.logAtMismatch = Len(log)])
             /\ UNCHANGED <<envPath, log>>
        ELSE /\ envPath' = addPath(envPath, binDir(pkg.platform))
             /\ log' = Append(log, Event("addPath", "binary", binDir(pkg.platform)))
             /\ todo' = <<Cmd("chmod", "chmod +x '"
                                \o binPath(pkg.platform, pkg.variant) \o "'")>>
             /\ pc' = "bin_ret"
             /\ hist' = [hist EXCEPT !.shaMismatch = ~sum.ok,
                                     !.logAtMismatch = Len(log)]
             /\ UNCHANGED error
  /\ UNCHANGED <<proc, inputs, state, pkg, method, sysTool, binFile, tmpDir, pm,
                 running, kb>>

\* installBinary returns, line 179
BinaryReturn ==
  /\ At("bin_ret")
  /\ hist' = [hist EXCEPT !.binary = "returned"]
  /\ pc' = "postcheck"
  /\ UNCHANGED <<proc, inputs, state, pkg, method, envPath, sysTool, binFile,
                 tmpDir, pm, todo, running, error, log, kb>>

-----------------------------------------------------------------------------
(* restore, lines 464-496, after line 564 of runInner *)

\* a save that is made only once restore is known to be enabled
keySaved_afterCheck(primaryKey, shouldRestore) ==
  IF shouldRestore.ok /\ shouldRestore.val THEN primaryKey ELSE Unset

\* the value core.saveState("primaryKey", ...) has stored when the restore
\* input is read: line 477 comes before line 479, so the input has no say
keySaved(primaryKey, shouldRestore) == primaryKey

\* lines 564-483: io.which(tool, true), then the keys are built and the
\* primary key saved before the restore input is looked at
Restore ==
  /\ At("restore")
  /\ IF ~Found
     THEN /\ Raise(Err("WhichError", "Unable to locate executable file", {}))
          /\ UNCHANGED <<inputs, state, log>>
     ELSE \E k \in KeyInputs, raw \in RestoreKeysInputs, r \in BooleanInputs :
       LET primaryKey == buildPrimaryKey(inputs.variant, k,
                                         inputs.appendTimestamp, state.startTimestamp)
           restoreKeys == buildRestoreKeys(inputs.variant, parseRestoreKeys(raw),
                                           inputs.appendTimestamp, state.startTimestamp)
           shouldRestore == getBooleanInput("restore", r)
           h == [hist EXCEPT !.restore = "running", !.restoreKeys = restoreKeys]
       IN /\ inputs' = [inputs EXCEPT !.key = k, !.restoreKeys = raw, !.restore = r]
          /\ state' = [state EXCEPT
                         !.primaryKey = keySaved(primaryKey, shouldRestore)]
          /\ log' = Append(log, SaveEvent("primaryKey",
                                          keySaved(primaryKey, shouldRestore)))
          /\ IF ~shouldRestore.ok
             THEN RaiseWith(shouldRestore.err, h)
             ELSE /\ pc' = IF shouldRestore.val THEN "restore_call" ELSE "configure"
                  /\ hist' = IF shouldRestore.val THEN h
                             ELSE [h EXCEPT !.restore = "returned"]
                  /\ UNCHANGED <<todo, error>>
  /\ UNCHANGED <<proc, pkg, method, envPath, sysTool, binFile, tmpDir, pm,
                 running, kb>>

\* lines 484-495: cache.restoreCache hits, misses or throws
RestoreCache ==
  /\ At("restore_call")
  /\ log' = Append(log, Event("restoreCache", "restore", state.primaryKey))
  /\ \/ /\ pc' = "configure"
        /\ hist' = [hist EXCEPT !.restore = "returned"]
        /\ UNCHANGED <<todo, error>>
     \/ Raise(Err("CacheError", "restoreCache failed", {}))
  /\ UNCHANGED <<proc, inputs, state, pkg, method, envPath, sysTool, binFile,
                 tmpDir, pm, running, kb>>

-----------------------------------------------------------------------------
(* configure, lines 498-526, and the end of runInner *)

SetConfig(setting) == Cmd("config", "ccache --set-config=" \o setting)

\* lines 499-508 and 523-524
Configure ==
  /\ At("configure")
  /\ IF inputs.variant = "ccache"
     THEN /\ todo' = <<SetConfig("cache_dir='<cacheDir>'"),
                       SetConfig("max_size='<maxSize>'"),
                       SetConfig("compression=true")>>
                     \o (IF proc.platform \in {"darwin", "win32"}
                         THEN <<SetConfig("compiler_check=content")>> ELSE <<>>)
          /\ pc' = "symlink"
     ELSE /\ todo' = <<Cmd("config",
                 "env SCCACHE_IDLE_TIMEOUT=0 SCCACHE_DIR='<cacheDir>' "
                   \o "SCCACHE_CACHE_SIZE='<maxSize>' sccache --start-server")>>
          /\ pc' = "zero"
  /\ UNCHANGED <<proc, inputs, state, pkg, method, envPath, sysTool, binFile,
                 tmpDir, pm, running, error, log, hist, kb>>

\* names the symbolic links are made under, lines 511-518
LinkNames == <<"gcc", "g++", "cc", "c++", "clang", "clang++", "emcc", "em++">>

\* lines 509-521
ConfigureSymlink ==
  /\ At("symlink")
  /\ \E c \in BooleanInputs :
       LET createSymlink == getBooleanInput("create-symlink", c)
           ccache == whichPath(envPath, pkg.platform, "ccache", sysTool, binFile)
           links == [i \in 1..Len(LinkNames) |->
                       Cmd("symlink", "ln -s " \o ccache \o " /usr/local/bin/"
                                        \o LinkNames[i])]
       IN /\ inputs' = [inputs EXCEPT !.createSymlink = c]
          /\ IF ~createSymlink.ok
             THEN Raise(createSymlink.err)
             ELSE /\ todo' = (IF createSymlink.val THEN links ELSE <<>>)
                               \o <<Cmd("config", "ccache -p")>>
                  /\ pc' = "zero"
                  /\ UNCHANGED <<error, hist>>
  /\ UNCHANGED <<proc, state, pkg, method, envPath, sysTool, binFile, tmpDir,
                 pm, running, log, kb>>

\* line 574
ZeroStats ==
  /\ At("zero")
  /\ todo' = <<Cmd("zero", inputs.variant \o " -z")>>
  /\ pc' = "end"
  /\ UNCHANGED <<proc, inputs, state, pkg, method, envPath, sysTool, binFile,
                 tmpDir, pm, running, error, log, hist, kb>>

\* lines 575-576: runInner returns
RunInnerReturn ==
  /\ At("end")
  /\ pc' = "done"
  /\ UNCHANGED <<proc, inputs, state, pkg, method, envPath, sysTool, binFile,
                 tmpDir, pm, todo, running, error, log, hist, kb>>

\* a catch that lets the errors of core.getBooleanInput through
caught_notTypeErrors(e) == e.kind # "TypeError"

\* the catch clause of run(), line 581: it catches every exception
caught(e) == TRUE

\* run, lines 578-584: the catch reports the failure; an exception it did not
\* catch would leave run()
RunCatch ==
  /\ pc = "catch"
  /\ running = {}
  /\ IF caught(error)
     THEN /\ log' = Append(log, Event("setFailed", "run",
                                      "Restoring cache failed: " \o error.msg))
          /\ hist' = [hist EXCEPT !.reports = @ + 1]
          /\ pc' = "failed"
     ELSE /\ pc' = "escaped"
          /\ UNCHANGED <<log, hist>>
  /\ UNCHANGED <<proc, inputs, state, pkg, method, envPath, sysTool, binFile,
                 tmpDir, pm, todo, running, error, kb>>

Next ==
  \/ RunInnerSaveState
  \/ RunInnerSelect
  \/ Install
  \/ InstallPackageManager
  \/ PmTry
  \/ PmReturn
  \/ InstallBinary
  \/ DownloadAndExtract
  \/ ZipCopy
  \/ TarDone
  \/ CheckSha
  \/ BinaryReturn
  \/ InstallPostCheck
  \/ Restore
  \/ RestoreCache
  \/ Configure
  \/ ConfigureSymlink
  \/ ZeroStats
  \/ RunInnerReturn
  \/ RunCatch
  \/ ExecBegin
  \/ ExecEnd

Spec == Init /\ [][Next]_vars


-----------------------------------------------------------------------------
(* the key builder of restore() applied to inputs of every shape *)

\* user keys the key builder is given
KbKeys == {"", "abc", "k"}

InitKeys ==
  /\ pc = "start"
  /\ proc = [platform |-> "linux", arch |-> "x64"]
  /\ inputs = NoInputs
  /\ state = NoState
  /\ pkg = NoPackage
  /\ method = ""
  /\ envPath = <<SysDir>>
  /\ sysTool = TRUE
  /\ binFile = NoFile
  /\ tmpDir = "none"
  /\ pm = NoPm
  /\ todo = <<>>
  /\ running = {}
  /\ error = NoError
  /\ log = <<>>
  /\ hist = NoHist
  /\ kb \in {[NoKb EXCEPT !.stage = "start", !.variant = v, !.key = k, !.raw = raw,
                          !.appendTimestamp = at, !.now = now] :
               v \in VARIANT, k \in KbKeys, raw \in RawRestoreKeys(MaxRawLen),
               at \in BooleanInputs, now \in Clock}

\* runInner line 554: append-timestamp is validated and saved as a boolean
KbSaveState ==
  /\ kb.stage = "start"
  /\ LET append == getBooleanInput("append-timestamp", kb.appendTimestamp)
     IN kb' = IF append.ok
              THEN [kb EXCEPT !.stage = "restore",
                              !.savedAppendTimestamp = boolStr(append.val)]
              ELSE [kb EXCEPT !.stage = "failed"]
  /\ UNCHANGED <<pc, proc, inputs, state, pkg, method, envPath, sysTool, binFile,
                 tmpDir, pm, todo, running, error, log, hist>>

\* restore lines 465-477: append-timestamp is read again, as a string
KbBuild ==
  /\ kb.stage = "restore"
  /\ kb' = [kb EXCEPT
       !.stage = "built",
       !.primaryKey = buildPrimaryKey(kb.variant, kb.key, kb.appendTimestamp, kb.now),
       !.restoreKeys = buildRestoreKeys(kb.variant, parseRestoreKeys(kb.raw),
                                        kb.appendTimestamp, kb.now)]
  /\ UNCHANGED <<pc, proc, inputs, state, pkg, method, envPath, sysTool, binFile,
                 tmpDir, pm, todo, running, error, log, hist>>

NextKeys == KbSaveState \/ KbBuild

SpecKeys == InitKeys /\ [][NextKeys]_vars


-----------------------------------------------------------------------------
(* Properties *)

\* sites of the commands of a binary install
BinarySites == {"curl", "unzip", "tar", "chmod"}
\* sites of the commands of the configure phase and of the statistics reset
ConfigSites == {"config", "symlink"}

\* the events of the log that satisfy a test
Events(Test(_)) == {i \in 1..Len(log) : Test(log[i])}

IsDownload(e) == e.op = "exec" /\ e.site = "curl"
IsBinaryCommand(e) == e.op = "exec" /\ e.site \in BinarySites
IsPmCommand(e) == e.op = "exec" /\ e.site \in PmSites
IsAddPath(e) == e.op = "addPath"
IsRestoreCall(e) == e.op = "restoreCache"
IsKeySave(e) == e.op = "saveState" /\ e.site = "primaryKey"
IsConfigCommand(e) == e.op = "exec" /\ e.site \in ConfigSites
IsZeroCommand(e) == e.op = "exec" /\ e.site = "zero"
IsCommand(e) == e.op = "exec"
IsLaterPhase(e) ==
  IsRestoreCall(e) \/ IsKeySave(e) \/ IsConfigCommand(e) \/ IsZeroCommand(e)

\* install() ran under the always-install-with-fallback policy
UnderAuto == method = "yes" \/ (method = "detect" /\ ~hist.foundAtStart)

InstallEnded == hist.install \in {"returned", "threw"}
BinaryEnded == hist.binary \in {"returned", "threw"}

\* C1: once a binary install attempt has ended, in success or in failure, the
\* temporary download directory made for it no longer exists.
C1_TmpDirRemoved == BinaryEnded => tmpDir # "exists"

\* C2: under the always-install-with-fallback policy a failed package-manager
\* command is not propagated: exactly one binary install attempt follows and
\* install() succeeds if and only if that binary install succeeds.
C2_FallbackOnPmFailure ==
  (UnderAuto /\ hist.pmFailed /\ InstallEnded) =>
     /\ error.kind # "PackageManagerError"
     /\ hist.binaryAttempts = 1
     /\ (hist.install = "returned" <=> hist.binary = "returned")

\* C3 as stated: install() returns only with the tool discoverable; whenever
\* the tool is not discoverable when install() ends, whatever the outcome of
\* the branch, install() fails with the 'Unable to install' error; and no
\* later phase runs after a failed install.
C3_Original ==
  /\ (hist.install = "returned" => Found)
  /\ (hist.install = "threw" /\ ~Found => error.kind = "UnableToInstall")
  /\ (hist.install = "threw" => Events(IsLaterPhase) = {})
  /\ (InstallEnded /\ method = "no" /\ ~hist.foundAtStart => hist.install = "threw")

\* C3 amended: install() returns only with the tool discoverable; when the
\* branch completes without throwing and the tool is not discoverable,
\* install() fails with the 'Unable to install' error; when the branch itself
\* throws, install() fails with the branch's error; after a failed install no
\* later phase runs; install=no with the tool absent fails with 'Unable to
\* install'.
C3_PostInstallGate ==
  /\ (hist.install = "returned" => Found)
  /\ (hist.install = "threw" /\ ~hist.branchThrew =>
        ~Found /\ error.kind = "UnableToInstall")
  /\ (hist.install = "threw" /\ hist.branchThrew =>
        error.kind \in {"ExecError", "PackageManagerError", "ShaMismatch",
                        "FsError", "TypeError"})
  /\ (hist.install = "threw" => Events(IsLaterPhase) = {} /\ pc \in {"catch", "failed"})
  /\ (InstallEnded /\ method = "no" /\ ~hist.foundAtStart =>
        hist.install = "threw" /\ error.kind = "UnableToInstall")

C3_Witness ==
  /\ pc = "failed"
  /\ method = "no"
  /\ ~hist.foundAtStart
  /\ hist.install = "threw"
  /\ error.kind = "UnableToInstall"

\* C4: under the detect policy with the tool discoverable when install()
\* starts, install() downloads nothing, extracts nothing, runs no
\* package-manager command and leaves the execution path as it was.
C4_DetectFoundDoesNothing ==
  (method = "detect" /\ hist.install # "notyet" /\ hist.foundAtStart) =>
     /\ Events(IsBinaryCommand) = {}
     /\ Events(IsPmCommand) = {}
     /\ Events(IsAddPath) = {}
     /\ envPath = hist.pathAtStart
     /\ tmpDir = "none"

C4_Witness ==
  /\ method = "detect"
  /\ hist.foundAtStart
  /\ hist.install = "returned"
  /\ pc = "done"

\* the fallback keys expected for a list of user restore keys
ExpectedRestoreKeys(variant, keys, suffix) ==
  [i \in 1..Len(keys) |-> variant \o "-" \o keys[i] \o suffix]

\* append-timestamp as a boolean option
KbAppendOption == getBooleanInput("append-timestamp", kb.appendTimestamp)

\* C5: with append-timestamp false and a non-empty user key k, the primary key
\* is exactly "<variant>-k" and the fallback keys are "<variant>-r" in order,
\* none with a trailing "-".
C5_KeysWithoutTimestamp ==
  (kb.stage = "built" /\ KbAppendOption.ok /\ ~KbAppendOption.val /\ kb.key # "") =>
     /\ kb.primaryKey = kb.variant \o "-" \o kb.key
     /\ kb.restoreKeys =
          ExpectedRestoreKeys(kb.variant, parseRestoreKeys(kb.raw), "")

\* C6: with append-timestamp true and a non-empty user key k, the primary key
\* is exactly "<variant>-k-" and every fallback key is "<variant>-r-": the
\* suffix is the constant "-", whatever the clock says.
C6_KeysWithTimestamp ==
  (kb.stage = "built" /\ KbAppendOption.ok /\ KbAppendOption.val /\ kb.key # "") =>
     /\ kb.primaryKey = kb.variant \o "-" \o kb.key \o "-"
     /\ kb.restoreKeys =
          ExpectedRestoreKeys(kb.variant, parseRestoreKeys(kb.raw), "-")

C6_Witness ==
  /\ kb.stage = "built"
  /\ kb.appendTimestamp = "true"
  /\ kb.key = "abc"
  /\ kb.now = "1762421000001"
  /\ kb.restoreKeys = <<"ccache-r-", "ccache-s-">>

SupportedRawPlatforms == {"linux", "win32", "darwin"}
SupportedRawArchs == {"x64", "arm64"}
Unsupported ==
  proc.platform \notin SupportedRawPlatforms \/ proc.arch \notin SupportedRawArchs

\* C7 as stated: for every unsupported raw platform or architecture
\* selectPackage fails with an error naming platform, architecture and
\* variant, and returns no descriptor.
C7_Original ==
  (hist.selected # "notyet" /\ Unsupported) =>
     /\ hist.selected = "threw"
     /\ pkg = NoPackage
     /\ error.names = {"platform", "arch", "variant"}

\* C7 amended: for an unsupported raw platform selectPackage fails with the
\* 'Unsupported platform' error naming that platform identifier; for a
\* supported platform with an unsupported raw architecture it fails with the
\* 'Unsupported architecture' error naming that architecture identifier; in
\* both cases no descriptor is returned.
C7_UnsupportedFails ==
  (hist.selected # "notyet" /\ Unsupported) =>
     /\ hist.selected = "threw"
     /\ pkg = NoPackage
     /\ pc \in {"catch", "failed"}
     /\ IF proc.platform \notin SupportedRawPlatforms
        THEN /\ error.kind = "UnsupportedPlatform"
             /\ error.msg = "Unsupported platform: " \o proc.platform
             /\ error.names = {"platform"}
        ELSE /\ error.kind = "UnsupportedArchitecture"
             /\ error.msg = "Unsupported architecture: " \o proc.arch
             /\ error.names = {"arch"}

C7_Witness ==
  /\ hist.selected = "threw"
  /\ proc.platform = "freebsd"
  /\ proc.arch = "x64"
  /\ inputs.variant = "ccache"
  /\ pc = "failed"

\* every descriptor of the three tables
AllDescriptors ==
  {t[a][v] : t \in {LINUX, WINDOWS, DARWIN}, a \in {"x64", "aarch64"}, v \in VARIANT}

\* C8: for every supported triple selectPackage returns the one descriptor of
\* that variant, platform and architecture, and its download name follows the
\* variant's rule: ccache-<version>-darwin.tar.gz on darwin for both
\* architectures, .tar.xz for ccache on linux, .zip for ccache on windows,
\* sccache-<version>-<arch>-<platform suffix>.tar.gz for sccache.
C8_SupportedTriple ==
  (hist.selected # "notyet" /\ ~Unsupported) =>
     LET platform == CASE proc.platform = "linux" -> "linux"
                       [] proc.platform = "win32" -> "windows"
                       [] proc.platform = "darwin" -> "darwin"
         arch == IF proc.arch = "x64" THEN "x86_64" ELSE "aarch64"
         suffix == CASE platform = "linux" -> "unknown-linux-musl"
                     [] platform = "windows" -> "pc-windows-msvc"
                     [] platform = "darwin" -> "apple-darwin"
         name == downloadName(pkg)
     IN /\ hist.selected = "returned"
        /\ pkg.variant = inputs.variant
        /\ pkg.platform = platform
        /\ pkg.arch = arch
        /\ {d \in AllDescriptors : d.variant = inputs.variant
              /\ d.platform = platform /\ d.arch = arch} = {pkg}
        /\ (pkg.variant = "ccache" /\ platform = "darwin" =>
              name = "ccache-" \o pkg.version \o "-darwin.tar.gz"
              /\ name = "ccache-4.12.2-darwin.tar.gz")
        /\ (pkg.variant = "ccache" /\ platform = "linux" =>
              name = "ccache-" \o pkg.version \o "-linux-" \o arch \o ".tar.xz")
        /\ (pkg.variant = "ccache" /\ platform = "windows" =>
              name = "ccache-" \o pkg.version \o "-windows-" \o arch \o ".zip")
        /\ (pkg.variant = "sccache" =>
              name = "sccache-" \o pkg.version \o "-" \o arch \o "-" \o suffix
                       \o ".tar.gz")
        /\ (pkg.variant = "sccache" /\ platform = "linux" /\ arch = "aarch64" =>
              name = "sccache-v0.12.0-aarch64-unknown-linux-musl.tar.gz")

C8_Witness ==
  /\ hist.selected = "returned"
  /\ pkg.variant = "ccache"
  /\ pkg.platform = "darwin"
  /\ pkg.arch = "aarch64"
  /\ pc = "install"

\* C9: a digest mismatch makes the binary install fail for good: after it no
\* command of any kind runs (no second download, no package-manager command,
\* no chmod), the file is not made executable, the error stays the mismatch
\* error and install() fails, under every policy.
C9_MismatchIsFatal ==
  hist.shaMismatch =>
     /\ \A i \in (hist.logAtMismatch + 1)..Len(log) : log[i].op = "setFailed"
     /\ running = {} /\ todo = <<>>
     /\ Cardinality(Events(IsDownload)) = 1
     /\ Events(LAMBDA e : e.op = "exec" /\ e.site = "chmod") = {}
     /\ hist.binaryAttempts = 1
     /\ hist.binary = "threw"
     /\ hist.install = "threw"
     /\ error.kind = "ShaMismatch"
     /\ pc \in {"catch", "failed"}

C9_Witness ==
  /\ hist.shaMismatch
  /\ pc = "failed"
  /\ method = "yes"
  /\ Events(IsPmCommand) # {}

\* C10: the phases run in the order install, restore, configure: the primary
\* key is saved and the blob store called only after install() returned with
\* the tool discoverable, configuration and statistics commands are issued
\* only after restore() returned, and at most one external command is in
\* progress at any time.
C10_PhaseOrder ==
  /\ (Events(IsRestoreCall) # {} \/ Events(IsKeySave) # {} \/ hist.restore # "notyet"
        => hist.install = "returned" /\ Found)
  /\ (Events(IsConfigCommand) # {} \/ Events(IsZeroCommand) # {}
        => hist.restore = "returned")
  /\ (\A i \in Events(IsBinaryCommand) \cup Events(IsPmCommand) :
        \A j \in Events(IsLaterPhase) : i < j)
  /\ (\A i \in Events(IsRestoreCall) \cup Events(IsKeySave) :
        \A j \in Events(IsConfigCommand) \cup Events(IsZeroCommand) : i < j)
  /\ (\A i \in Events(IsConfigCommand) : \A j \in Events(IsZeroCommand) : i < j)
  /\ Cardinality(running) <= 1

C10_Witness ==
  /\ pc = "done"
  /\ Events(IsBinaryCommand) # {}
  /\ Events(IsRestoreCall) # {}
  /\ Events(IsConfigCommand) # {}
  /\ Events(IsZeroCommand) # {}


IsSetFailed(e) == e.op = "setFailed"
IsInstallPhase(e) == IsBinaryCommand(e) \/ IsPmCommand(e) \/ IsAddPath(e)

\* a step of the run has failed
Failed == error.kind # "none"

\* C11: when a step fails, run() reports the failure exactly once with
\* core.setFailed, as the last thing it does, no step of a later phase runs
\* and no exception leaves run(); a run in which nothing fails reports no
\* failure.
C11_SingleFailureReport ==
  /\ hist.reports <= 1
  /\ Cardinality(Events(IsSetFailed)) = hist.reports
  /\ pc # "escaped"
  /\ (Failed => pc \in {"catch", "failed"} /\ todo = <<>> /\ running = {})
  /\ (pc = "catch" => Failed /\ hist.reports = 0)
  /\ (pc = "failed" =>
        /\ Failed
        /\ hist.reports = 1
        /\ log[Len(log)] = Event("setFailed", "run",
                                 "Restoring cache failed: " \o error.msg))
  /\ (~Failed => hist.reports = 0)
  /\ (Failed /\ hist.install = "notyet" =>
        Events(IsInstallPhase) = {} /\ Events(IsLaterPhase) = {})
  /\ (Failed /\ hist.install = "threw" => Events(IsLaterPhase) = {})
  /\ (Failed /\ hist.restore = "threw" =>
        Events(IsConfigCommand) = {} /\ Events(IsZeroCommand) = {})
  /\ (Failed /\ hist.failedSite \in ConfigSites => Events(IsZeroCommand) = {})
  /\ (pc = "done" => ~Failed /\ Events(IsSetFailed) = {})

C11_Witness ==
  /\ pc = "failed"
  /\ hist.restore = "threw"
  /\ error.kind = "CacheError"
  /\ hist.reports = 1


\* the restore input as a boolean option
RestoreOption == getBooleanInput("restore", inputs.restore)

\* C12: in a run that reaches restore(), the primary key built from the inputs
\* is saved to the cross-phase state before the restore input is looked at and
\* before the blob store is called: it is saved when restore is false, when
\* the restore input is invalid and when the blob-store call fails; with
\* restore false the blob store is never called.
C12_KeySavedFirst ==
  hist.restore # "notyet" =>
     /\ state.primaryKey =
          buildPrimaryKey(inputs.variant, inputs.key, inputs.appendTimestamp,
                          state.startTimestamp)
     /\ state.primaryKey # Unset
     /\ Cardinality(Events(IsKeySave)) = 1
     /\ \A i \in Events(IsKeySave) : log[i].arg = state.primaryKey
     /\ \A i \in Events(IsKeySave) : \A j \in Events(IsRestoreCall) : i < j
     /\ Cardinality(Events(IsRestoreCall)) <= 1
     /\ (~RestoreOption.ok \/ ~RestoreOption.val => Events(IsRestoreCall) = {})
     /\ (RestoreOption.ok /\ RestoreOption.val /\ pc # "restore_call" =>
           Cardinality(Events(IsRestoreCall)) = 1)

C12_Witness ==
  /\ pc = "done"
  /\ inputs.restore = "false"
  /\ state.primaryKey = "ccache-abc-"
  /\ Events(IsRestoreCall) = {}


\* C13: under the always-install-with-fallback policy on Linux, when none of
\* apt-get, apk, dnf, pacman is found, the package-manager attempt runs no
\* command and raises no error, and the binary install follows.
C13_NoManagerFallsBack ==
  (UnderAuto /\ pkg.platform = "linux" /\ hist.managerProbed /\ pm.manager = "") =>
     /\ Events(IsPmCommand) = {}
     /\ hist.pm # "threw"
     /\ error.kind # "PackageManagerError"
     /\ (hist.pm = "returned" /\ pc # "binary" => hist.binaryAttempts = 1)

\* C14: with an empty user key the primary key is exactly "<variant>-" for
\* both values of append-timestamp; every fallback key still has the
\* "<variant>-" prefix and, with append-timestamp enabled, the "-" suffix.
C14_EmptyKey ==
  (kb.stage = "built" /\ kb.key = "" /\ KbAppendOption.ok) =>
     LET keys == parseRestoreKeys(kb.raw)
     IN /\ kb.primaryKey = kb.variant \o "-"
        /\ Len(kb.restoreKeys) = Len(keys)
        /\ \A i \in 1..Len(keys) :
             kb.restoreKeys[i] \in {kb.variant \o "-" \o keys[i],
                                    kb.variant \o "-" \o keys[i] \o "-"}
        /\ (KbAppendOption.val =>
              kb.restoreKeys = ExpectedRestoreKeys(kb.variant, keys, "-"))

C14_Witness ==
  /\ kb.stage = "built"
  /\ kb.key = ""
  /\ kb.appendTimestamp = "true"
  /\ kb.primaryKey = "sccache-"
  /\ kb.restoreKeys = <<"sccache-r-", "sccache-s-">>

\* C15: a binary install attempt that fails leaves a file that already
\* existed at binDir/<tool> as it was.
C15_PriorInstallKept ==
  (hist.binary = "threw" /\ hist.fileAtStart.content = "prior") =>
     binFile = hist.fileAtStart


IsPmUpdate(e) == e.op = "exec" /\ e.site = "pm_update"
IsPmInstallKind(e) == e.op = "exec" /\ e.site \in {"pm_epel", "pm_install"}
IsEpel(e) == e.op = "exec" /\ e.site = "pm_epel"

\* C16: with update-package-index requested, the index refresh is the first
\* package-manager command of the attempt for every detected manager, no
\* install command precedes it; without the request no index refresh runs.
C16_RefreshFirst ==
  (hist.pm # "notyet" /\ pm.manager # "") =>
     /\ (pm.shouldUpdate =>
           \A i \in Events(IsPmInstallKind) :
              \E j \in Events(IsPmUpdate) : j < i)
     /\ (~pm.shouldUpdate => Events(IsPmUpdate) = {})

\* C17: the pre-install step (install epel-release) runs only when the
\* detected manager is dnf and the variant is ccache; when it fails, the
\* failure is wrapped into the package-manager error like any other
\* package-manager command failure.
C17_PreInstallOnlyDnfCcache ==
  /\ (Events(IsEpel) # {} => pm.manager = "dnf" /\ pkg.variant = "ccache")
  /\ (hist.failedSite = "pm_epel" => error.kind = "PackageManagerError")

\* C18: under the always-install-with-fallback policy, with the sccache
\* variant and apt-get or apk detected, no package-manager command runs (not
\* even the index refresh when it is requested) and exactly one binary
\* install follows; and when the package-manager install succeeded with the
\* tool discoverable, nothing is downloaded and no binary install happens.
C18_SkipAndConverse ==
  /\ (UnderAuto /\ pkg.variant = "sccache" /\ pm.manager \in {"apt-get", "apk"} =>
        /\ Events(IsPmCommand) = {}
        /\ hist.pm \in {"running", "returned"}
        /\ (hist.pm = "returned" =>
              /\ hist.pmResult = "false"
              /\ hist.binaryAttempts = (IF pc = "binary" THEN 0 ELSE 1)
              /\ Cardinality(Events(IsDownload)) <= 1))
  /\ (hist.pm = "returned" /\ hist.pmResult = "true" =>
        /\ hist.binaryAttempts = 0
        /\ hist.binary = "none"
        /\ Events(IsBinaryCommand) = {}
        /\ Events(IsAddPath) = {}
        /\ tmpDir = "none")

C18_Witness ==
  /\ pc = "done"
  /\ method = "yes"
  /\ pkg.variant = "sccache"
  /\ pm.manager = "apt-get"
  /\ pm.shouldUpdate
  /\ hist.binaryAttempts = 1
  /\ Events(IsPmCommand) = {}

\* C20: only apt-get commands are elevated: every apt-get index refresh and
\* install runs as "$(which sudo) <command>" when sudo is on the path and as
\* the plain command when it is not; the commands of brew, apk, dnf and pacman
\* are always the plain commands.
C20_ElevationOnlyAptGet ==
  \A i \in Events(IsPmCommand) :
    LET plain ==
          CASE pm.manager = "apt-get" ->
                 {"apt-get update", "apt-get install -y " \o pkg.variant}
            [] pm.manager = "brew" ->
                 {"brew update", "brew install " \o pkg.variant}
            [] pm.manager = "apk" -> {"apk update", "apk add " \o pkg.variant}
            [] pm.manager = "dnf" ->
                 {"dnf check-update", "dnf install -y " \o pkg.variant,
                  "dnf install -y epel-release"}
            [] pm.manager = "pacman" ->
                 {"pacman -Syu --noconfirm --needed",
                  "pacman -S --noconfirm --needed " \o pkg.variant}
            [] OTHER -> {"undefined", "undefined " \o pkg.variant}
        elevated == {"$(which sudo) " \o c : c \in plain}
    IN IF pm.manager = "apt-get" /\ pm.sudoFound
       THEN log[i].arg \in elevated
       ELSE log[i].arg \in plain

C20_Witness ==
  /\ pm.manager = "apt-get"
  /\ ~pm.sudoFound
  /\ pm.shouldUpdate
  /\ Cardinality(Events(IsPmCommand)) = 2
  /\ hist.pm = "returned"


\* the steps of a run whose install policy is m, whatever `method` holds
NextAs(m) ==
  \/ RunInnerSaveState \/ RunInnerSelect
  \/ InstallAs(m)
  \/ InstallPackageManager \/ PmTry \/ PmReturn
  \/ InstallBinary \/ DownloadAndExtract \/ ZipCopy \/ TarDone \/ CheckSha
  \/ BinaryReturn \/ InstallPostCheck
  \/ Restore \/ RestoreCache
  \/ Configure \/ ConfigureSymlink \/ ZeroStats \/ RunInnerReturn
  \/ RunCatch \/ ExecBegin \/ ExecEnd

\* the tool is not discoverable when install() starts
AbsentAtStart ==
  IF hist.install = "notyet" THEN ~Found ELSE ~hist.foundAtStart

\* C19: with the tool not discoverable when install() starts, every step of a
\* run under the detect policy is the step the yes policy takes from the same
\* state, and conversely: the two policies perform the same external
\* operations and reach the same outcomes.
C19_DetectAsYes ==
  [][ /\ (method = "detect" /\ AbsentAtStart => NextAs("yes"))
      /\ (method = "yes" /\ AbsentAtStart => NextAs("detect")) ]_vars

C19_Witness ==
  /\ pc = "done"
  /\ method = "detect"
  /\ ~hist.foundAtStart
  /\ hist.install = "returned"
  /\ Events(IsPmCommand) # {}
  /\ hist.binaryAttempts = 1

====
